---- MODULE Spec2Model ----
(***************************************************************************)
(* A model of the two console scripts of MobilityDB-visualization:          *)
(*   create_temporal_layer.py  (the Layer Initializer)                      *)
(*   import_rows_to_memory.py  (the Trip Row Importer)                      *)
(* Each script is a straight-line program run from the host's Python        *)
(* console; a program counter holds the source line about to be executed   *)
(* (0 when the script is not running).  The console session survives a run, *)
(* so the scripts' variables keep their values from one run to the next.    *)
(***************************************************************************)
EXTENDS Integers, Sequences, FiniteSets, TLC

\* ------------------------------------------------------------------ bounds
MaxLayerRuns == 2
MaxImportRuns == 2
MaxRows == 2
MaxFrame == 1

VARIABLES
    \* Layer Initializer: console variables and host objects
    lpc,          \* line of create_temporal_layer.py about to run, 0 = not running
    layerObjs,    \* the QgsVectorLayer objects constructed so far (index = identity)
    vlayer,       \* console variable vlayer: index into layerObjs, 0 = unbound
    pr,           \* console variable pr: the layer whose data provider it is
    tp,           \* console variable tp: the layer whose temporal properties it is
    registry,     \* QgsProject.instance(): the registered map layers, in order
    lruns,        \* runs of the script started so far
    lstatus,      \* "none", "running", "done" or "fault" (unhandled fault)
    lfailedAt,    \* line at which the current/last run faulted, 0 = none
    lpre,         \* history: the registry when the current/last run started
    \* Trip Row Importer: console variables, driver objects, database
    ipc,          \* line of import_rows_to_memory.py about to run, 0 = not running
    currentFrameNumber,
    connection,   \* console variable connection: handle, 0 = None
    conns,        \* the driver's connection handles created so far
    cursor,       \* console variable cursor
    select_query, \* console variable select_query (sequence of text fragments)
    dtrange,      \* console variable dtrange
    rows,         \* console variable rows
    console,      \* lines printed on the console
    table,        \* the trip column of trips_test, in the database's row order
    error,        \* the exception in flight or being handled, "" = none
    pending,      \* the exception left unhandled by the except clause, "" = none
    iruns,        \* runs of the script started so far
    istatus,      \* "none", "running", "ok", "handled" or "raised"
    ifailedAt,    \* line at which the current/last run raised, 0 = none
    executed,     \* history: the lines the current/last run has executed
    ipre          \* history: rows, console, conns and the table when the run started

lvars == <<lpc, layerObjs, vlayer, pr, tp, registry, lruns, lstatus, lfailedAt, lpre>>
ivars == <<ipc, currentFrameNumber, connection, conns, cursor, select_query, dtrange,
           rows, console, table, error, pending, iruns, istatus, ifailedAt,
           executed, ipre>>
vars == <<lvars, ivars>>

Range(s) == {s[i] : i \in DOMAIN s}

\* =================================================== Layer Initializer
\* QgsField("time", QVariant.DateTime)
TimeField == [name |-> "time", type |-> "DateTime"]

\* QgsVectorLayer("Point", "points_3", "memory"): a fresh layer, no attribute
\* fields, temporal properties at their defaults
NewLayer ==
    [geometry |-> "Point", name |-> "points_3", provider |-> "memory",
     providerFields |-> <<>>, fields |-> <<>>,
     temporal |-> [isActive |-> FALSE, mode |-> 0, startField |-> ""]]

HasField(fields, name, type) ==
    \E i \in DOMAIN fields : fields[i].name = name /\ fields[i].type = type

HasFieldNamed(fields, name) ==
    \E i \in DOMAIN fields : fields[i].name = name

\* QgsProject.addMapLayer by name: one layer per name (a registry keyed by name)
AddMapLayerByName(reg, id) ==
    IF \E i \in DOMAIN reg : layerObjs[reg[i]].name = layerObjs[id].name
    THEN reg ELSE Append(reg, id)

\* QgsProject.addMapLayer: the registry takes the layer object unless that very
\* object is already registered
AddMapLayer(reg, id) ==
    IF id \in Range(reg) THEN reg ELSE Append(reg, id)

LInit ==
    /\ lpc = 0
    /\ layerObjs = <<>>
    /\ vlayer = 0
    /\ pr = 0
    /\ tp = 0
    /\ registry = <<>>
    /\ lruns = 0
    /\ lstatus = "none"
    /\ lfailedAt = 0
    /\ lpre = <<>>

\* the user runs the script in the console (one console: no script is running)
LayerStart ==
    /\ lpc = 0
    /\ ipc = 0
    /\ lruns < MaxLayerRuns
    /\ lpc' = 3
    /\ lruns' = lruns + 1
    /\ lstatus' = "running"
    /\ lfailedAt' = 0
    /\ lpre' = registry
    /\ UNCHANGED <<layerObjs, vlayer, pr, tp, registry>>
    /\ UNCHANGED ivars

\* construction that also registers the layer with the project
ConstructLayerRegistered ==
    /\ lpc = 3
    /\ layerObjs' = Append(layerObjs, NewLayer)
    /\ vlayer' = Len(layerObjs) + 1
    /\ registry' = Append(registry, Len(layerObjs) + 1)
    /\ lpc' = 4
    /\ UNCHANGED <<pr, tp, lruns, lstatus, lfailedAt, lpre>>
    /\ UNCHANGED ivars

\* line 3: vlayer = QgsVectorLayer("Point", "points_3", "memory")
ConstructLayer ==
    /\ lpc = 3
    /\ layerObjs' = Append(layerObjs, NewLayer)
    /\ vlayer' = Len(layerObjs) + 1
    /\ lpc' = 4
    /\ UNCHANGED <<pr, tp, registry, lruns, lstatus, lfailedAt, lpre>>
    /\ UNCHANGED ivars

\* line 4: pr = vlayer.dataProvider()
GetDataProvider ==
    /\ lpc = 4
    /\ pr' = vlayer
    /\ lpc' = 5
    /\ UNCHANGED <<layerObjs, vlayer, tp, registry, lruns, lstatus, lfailedAt, lpre>>
    /\ UNCHANGED ivars

\* line 5: pr.addAttributes([QgsField("time", QVariant.DateTime)])
\* the provider gets the field; the layer's own field list is not yet updated
AddAttributes ==
    /\ lpc = 5
    /\ layerObjs' = [layerObjs EXCEPT ![pr].providerFields = Append(@, TimeField)]
    /\ lpc' = 6
    /\ UNCHANGED <<vlayer, pr, tp, registry, lruns, lstatus, lfailedAt, lpre>>
    /\ UNCHANGED ivars

\* the first field commit left out
SkipUpdateFields ==
    /\ lpc = 6
    /\ lpc' = 7
    /\ UNCHANGED <<layerObjs, vlayer, pr, tp, registry, lruns, lstatus, lfailedAt, lpre>>
    /\ UNCHANGED ivars

\* line 6: vlayer.updateFields(): the layer takes over the provider's fields
UpdateFields ==
    /\ lpc = 6
    /\ layerObjs' = [layerObjs EXCEPT ![vlayer].fields = layerObjs[vlayer].providerFields]
    /\ lpc' = 7
    /\ UNCHANGED <<vlayer, pr, tp, registry, lruns, lstatus, lfailedAt, lpre>>
    /\ UNCHANGED ivars

\* line 7: tp = vlayer.temporalProperties()
GetTemporalProperties ==
    /\ lpc = 7
    /\ tp' = vlayer
    /\ lpc' = 8
    /\ UNCHANGED <<layerObjs, vlayer, pr, registry, lruns, lstatus, lfailedAt, lpre>>
    /\ UNCHANGED ivars

\* line 8: tp.setIsActive(True)
SetIsActive ==
    /\ lpc = 8
    /\ layerObjs' = [layerObjs EXCEPT ![tp].temporal.isActive = TRUE]
    /\ lpc' = 9
    /\ UNCHANGED <<vlayer, pr, tp, registry, lruns, lstatus, lfailedAt, lpre>>
    /\ UNCHANGED ivars

\* the mode left at its default
SetModeDefault ==
    /\ lpc = 9
    /\ layerObjs' = [layerObjs EXCEPT ![tp].temporal.mode = 0]
    /\ lpc' = 10
    /\ UNCHANGED <<vlayer, pr, tp, registry, lruns, lstatus, lfailedAt, lpre>>
    /\ UNCHANGED ivars

\* line 9: tp.setMode(1)  (single field with datetime)
SetMode ==
    /\ lpc = 9
    /\ layerObjs' = [layerObjs EXCEPT ![tp].temporal.mode = 1]
    /\ lpc' = 10
    /\ UNCHANGED <<vlayer, pr, tp, registry, lruns, lstatus, lfailedAt, lpre>>
    /\ UNCHANGED ivars

\* line 10: tp.setStartField("time")
SetStartField ==
    /\ lpc = 10
    /\ layerObjs' = [layerObjs EXCEPT ![tp].temporal.startField = "time"]
    /\ lpc' = 11
    /\ UNCHANGED <<vlayer, pr, tp, registry, lruns, lstatus, lfailedAt, lpre>>
    /\ UNCHANGED ivars

\* line 11: vlayer.updateFields()
UpdateFieldsAgain ==
    /\ lpc = 11
    /\ layerObjs' = [layerObjs EXCEPT ![vlayer].fields = layerObjs[vlayer].providerFields]
    /\ lpc' = 12
    /\ UNCHANGED <<vlayer, pr, tp, registry, lruns, lstatus, lfailedAt, lpre>>
    /\ UNCHANGED ivars

\* line 12: QgsProject.instance().addMapLayer(vlayer); the script ends
RegisterLayer ==
    /\ lpc = 12
    /\ registry' = AddMapLayer(registry, vlayer)
    /\ lpc' = 0
    /\ lstatus' = "done"
    /\ UNCHANGED <<layerObjs, vlayer, pr, tp, lruns, lfailedAt, lpre>>
    /\ UNCHANGED ivars

\* lines 3-12: no try block; the call at the current line faults, the fault is
\* not handled and the console abandons the script there
LayerFault ==
    /\ lpc \in 3..12
    /\ lfailedAt' = lpc
    /\ lstatus' = "fault"
    /\ lpc' = 0
    /\ UNCHANGED <<layerObjs, vlayer, pr, tp, registry, lruns, lpre>>
    /\ UNCHANGED ivars

LayerNext ==
    \/ LayerStart
    \/ ConstructLayer
    \/ GetDataProvider
    \/ AddAttributes
    \/ UpdateFields
    \/ GetTemporalProperties
    \/ SetIsActive
    \/ SetMode
    \/ SetStartField
    \/ UpdateFieldsAgain
    \/ RegisterLayer
    \/ LayerFault

\* =================================================== Trip Row Importer
\* line 8: the value None of the console variable connection
None == 0

\* line 38: the fixed first argument of print
ErrorPrefix == "Error while connecting to PostgreSQL"

\* a SQL NULL in the trip column, and the trip values as stored (their text form)
SqlNull == "NULL"
RawTrips == {SqlNull, "A"}

\* the possible contents of trips_test.trip
Tables == UNION {[1..n -> RawTrips] : n \in 0..MaxRows}

\* line 22: the query text
SelectAll == <<"SELECT trip FROM trips_test">>

\* line 24 (a comment in the source): the time-filtered query text
SelectAtTimestamp(range) ==
    <<"SELECT valueAtTimestamp(trip, '", ToString(range.end), "') FROM trips_test">>

\* Python values held in a fetched tuple
PyNone == [cls |-> "NoneType", repr |-> "None"]
PyTrip(raw) == [cls |-> "TGeomPoint", repr |-> raw]
PyStr(raw) == [cls |-> "str", repr |-> raw]

\* the driver's conversion of one column value: NULL becomes None; a trip is
\* decoded by the MobilityDB adapter when register() installed it on the
\* connection, and comes back as its text otherwise
Decode(raw, registered) ==
    IF raw = SqlNull THEN PyNone
    ELSE IF registered THEN PyTrip(raw) ELSE PyStr(raw)

\* the server's answer to a query: one one-column tuple per row, in row order
Evaluate(query, t) ==
    IF query = SelectAll
    THEN [i \in 1..Len(t) |-> <<t[i]>>]
    ELSE [i \in 1..Len(t) |->
            <<IF t[i] = SqlNull THEN SqlNull ELSE t[i] \o "@" \o query[2]>>]

\* a fetch that leaves out the rows whose trip is NULL
FetchAllNonNull(result, registered) ==
    LET kept == SelectSeq(result, LAMBDA r : r[1] # SqlNull)
    IN  [i \in 1..Len(kept) |-> <<Decode(kept[i][1], registered)>>]

\* line 26: cursor.fetchall(): every row of the result, converted
FetchAllRows(result, registered) ==
    [i \in 1..Len(result) |-> <<Decode(result[i][1], registered)>>]

\* line 23: temporalController.dateTimeRangeForFrameNumber(frame)
DateTimeRangeForFrameNumber(frame) == [begin |-> frame, end |-> frame + 1]

\* the classes an exception class derives from (itself included)
Mro(cls) ==
    CASE cls = "OperationalError" ->
            {"OperationalError", "psycopg2.Error", "Exception", "BaseException"}
      [] cls = "ProgrammingError" ->
            {"ProgrammingError", "psycopg2.Error", "Exception", "BaseException"}
      [] cls = "InterfaceError" ->
            {"InterfaceError", "psycopg2.Error", "Exception", "BaseException"}
      [] cls = "TypeError" -> {"TypeError", "Exception", "BaseException"}
      [] cls = "AttributeError" -> {"AttributeError", "Exception", "BaseException"}
      [] OTHER -> {cls, "BaseException"}

\* an except clause naming the driver's exception type alone
CatchesDriverOnly(cls) == "psycopg2.Error" \in Mro(cls)

\* line 37: except (Exception, psycopg2.Error)
Catches(cls) == "Exception" \in Mro(cls) \/ "psycopg2.Error" \in Mro(cls)

\* lines 12-26: what the call at each line of the try block can raise
Raises(line) ==
    CASE line = 12 -> {"OperationalError"}
      [] line = 13 -> {"InterfaceError"}
      [] line = 16 -> {"ProgrammingError", "OperationalError"}
      [] line = 19 -> {"InterfaceError"}
      [] line = 23 -> {"TypeError"}
      [] line = 25 -> {"ProgrammingError", "OperationalError"}
      [] line = 26 -> {"ProgrammingError"}
      [] OTHER -> {}

\* lines 10-26: the lines of the try block
GuardedLines == {12, 13, 16, 19, 22, 23, 25, 26}

\* a finally clause that closes without looking at connection
TruthyAlways(c) == TRUE

\* line 42: if connection
Truthy(c) == c # None

IInit ==
    /\ ipc = 0
    /\ currentFrameNumber = 0
    /\ connection = None
    /\ conns = <<>>
    /\ cursor = [bound |-> FALSE, conn |-> None, query |-> <<>>, params |-> <<>>,
                 result |-> <<>>]
    /\ select_query = <<>>
    /\ dtrange = [begin |-> 0, end |-> 0]
    /\ rows = [bound |-> FALSE, value |-> <<>>]
    /\ console = <<>>
    /\ table = <<>>
    /\ error = ""
    /\ pending = ""
    /\ iruns = 0
    /\ istatus = "none"
    /\ ifailedAt = 0
    /\ executed = {}
    /\ ipre = [rows |-> [bound |-> FALSE, value |-> <<>>], console |-> <<>>,
               conns |-> <<>>]

Init == LInit /\ IInit

\* the user runs the script in the console; the database holds some table
ImporterStart ==
    /\ ipc = 0
    /\ lpc = 0
    /\ iruns < MaxImportRuns
    /\ \E t \in Tables : table' = t
    /\ ipc' = 4
    /\ iruns' = iruns + 1
    /\ istatus' = "running"
    /\ ifailedAt' = 0
    /\ error' = ""
    /\ pending' = ""
    /\ executed' = {}
    /\ ipre' = [rows |-> rows, console |-> console, conns |-> conns]
    /\ UNCHANGED <<currentFrameNumber, connection, conns, cursor, select_query,
                   dtrange, rows, console>>
    /\ UNCHANGED lvars

\* line 4: canvas = iface.mapCanvas()
GetCanvas ==
    /\ ipc = 4
    /\ ipc' = 5
    /\ executed' = executed \cup {4}
    /\ UNCHANGED <<currentFrameNumber, connection, conns, cursor, select_query,
                   dtrange, rows, console, table, error, pending, iruns, istatus,
                   ifailedAt, ipre>>
    /\ UNCHANGED lvars

\* line 5: temporalController = canvas.temporalController()
GetTemporalController ==
    /\ ipc = 5
    /\ ipc' = 6
    /\ executed' = executed \cup {5}
    /\ UNCHANGED <<currentFrameNumber, connection, conns, cursor, select_query,
                   dtrange, rows, console, table, error, pending, iruns, istatus,
                   ifailedAt, ipre>>
    /\ UNCHANGED lvars

\* line 6: currentFrameNumber = temporalController.currentFrameNumber()
ReadFrameNumber ==
    /\ ipc = 6
    /\ \E f \in 0..MaxFrame : currentFrameNumber' = f
    /\ ipc' = 8
    /\ executed' = executed \cup {6}
    /\ UNCHANGED <<connection, conns, cursor, select_query, dtrange, rows, console,
                   table, error, pending, iruns, istatus, ifailedAt, ipre>>
    /\ UNCHANGED lvars

\* lines 4-6 are outside the try block: a fault there is not handled, and
\* neither the except clause nor the finally clause runs
UnguardedFault ==
    /\ ipc \in {4, 5, 6}
    /\ ifailedAt' = ipc
    /\ executed' = executed \cup {ipc}
    /\ error' = "AttributeError"
    /\ pending' = "AttributeError"
    /\ istatus' = "raised"
    /\ ipc' = 0
    /\ UNCHANGED <<currentFrameNumber, connection, conns, cursor, select_query,
                   dtrange, rows, console, table, iruns, ipre>>
    /\ UNCHANGED lvars

\* the assignment of line 8 left out: connection keeps the last run's handle
KeepConnection ==
    /\ ipc = 8
    /\ ipc' = 12
    /\ executed' = executed \cup {8}
    /\ UNCHANGED <<currentFrameNumber, connection, conns, cursor, select_query,
                   dtrange, rows, console, table, error, pending, iruns, istatus,
                   ifailedAt, ipre>>
    /\ UNCHANGED lvars

\* line 8: connection = None
ResetConnection ==
    /\ ipc = 8
    /\ connection' = None
    /\ ipc' = 12
    /\ executed' = executed \cup {8}
    /\ UNCHANGED <<currentFrameNumber, conns, cursor, select_query, dtrange, rows,
                   console, table, error, pending, iruns, istatus, ifailedAt, ipre>>
    /\ UNCHANGED lvars

\* line 12: connection = psycopg2.connect(...): a new open handle
Connect ==
    /\ ipc = 12
    /\ conns' = Append(conns, [open |-> TRUE, closeCalls |-> 0,
                               autocommit |-> FALSE, registered |-> FALSE])
    /\ connection' = Len(conns) + 1
    /\ ipc' = 13
    /\ executed' = executed \cup {12}
    /\ UNCHANGED <<currentFrameNumber, cursor, select_query, dtrange, rows, console,
                   table, error, pending, iruns, istatus, ifailedAt, ipre>>
    /\ UNCHANGED lvars

\* line 13: connection.autocommit = True
SetAutocommit ==
    /\ ipc = 13
    /\ conns' = [conns EXCEPT ![connection].autocommit = TRUE]
    /\ ipc' = 16
    /\ executed' = executed \cup {13}
    /\ UNCHANGED <<currentFrameNumber, connection, cursor, select_query, dtrange,
                   rows, console, table, error, pending, iruns, istatus, ifailedAt,
                   ipre>>
    /\ UNCHANGED lvars

\* line 16: register(connection)
Register ==
    /\ ipc = 16
    /\ conns' = [conns EXCEPT ![connection].registered = TRUE]
    /\ ipc' = 19
    /\ executed' = executed \cup {16}
    /\ UNCHANGED <<currentFrameNumber, connection, cursor, select_query, dtrange,
                   rows, console, table, error, pending, iruns, istatus, ifailedAt,
                   ipre>>
    /\ UNCHANGED lvars

\* line 19: cursor = connection.cursor()
OpenCursor ==
    /\ ipc = 19
    /\ cursor' = [bound |-> TRUE, conn |-> connection, query |-> <<>>,
                  params |-> <<>>, result |-> <<>>]
    /\ ipc' = 22
    /\ executed' = executed \cup {19}
    /\ UNCHANGED <<currentFrameNumber, connection, conns, select_query, dtrange,
                   rows, console, table, error, pending, iruns, istatus, ifailedAt,
                   ipre>>
    /\ UNCHANGED lvars

\* line 22: select_query = "SELECT trip FROM trips_test"
AssignQuery ==
    /\ ipc = 22
    /\ select_query' = SelectAll
    /\ ipc' = 23
    /\ executed' = executed \cup {22}
    /\ UNCHANGED <<currentFrameNumber, connection, conns, cursor, dtrange, rows,
                   console, table, error, pending, iruns, istatus, ifailedAt, ipre>>
    /\ UNCHANGED lvars

\* lines 23-24 with the comment of line 24 live: the query is rebuilt from the
\* end of the frame's time range
ReadTimeRangeFiltered ==
    /\ ipc = 23
    /\ dtrange' = DateTimeRangeForFrameNumber(currentFrameNumber)
    /\ select_query' = SelectAtTimestamp(dtrange')
    /\ ipc' = 25
    /\ executed' = executed \cup {23}
    /\ UNCHANGED <<currentFrameNumber, connection, conns, cursor, rows, console,
                   table, error, pending, iruns, istatus, ifailedAt, ipre>>
    /\ UNCHANGED lvars

\* line 23: dtrange = temporalController.dateTimeRangeForFrameNumber(currentFrameNumber)
ReadTimeRange ==
    /\ ipc = 23
    /\ dtrange' = DateTimeRangeForFrameNumber(currentFrameNumber)
    /\ ipc' = 25
    /\ executed' = executed \cup {23}
    /\ UNCHANGED <<currentFrameNumber, connection, conns, cursor, select_query, rows,
                   console, table, error, pending, iruns, istatus, ifailedAt, ipre>>
    /\ UNCHANGED lvars

\* line 25: cursor.execute(select_query): no parameters are passed
Execute ==
    /\ ipc = 25
    /\ cursor' = [cursor EXCEPT !.query = select_query, !.params = <<>>,
                                !.result = Evaluate(select_query, table)]
    /\ ipc' = 26
    /\ executed' = executed \cup {25}
    /\ UNCHANGED <<currentFrameNumber, connection, conns, select_query, dtrange, rows,
                   console, table, error, pending, iruns, istatus, ifailedAt, ipre>>
    /\ UNCHANGED lvars

\* line 26: rows = cursor.fetchall(); the try block ends and the finally
\* clause is next
FetchAll ==
    /\ ipc = 26
    /\ rows' = [bound |-> TRUE,
                value |-> FetchAllRows(cursor.result, conns[cursor.conn].registered)]
    /\ cursor' = [cursor EXCEPT !.result = <<>>]
    /\ ipc' = 42
    /\ executed' = executed \cup {26}
    /\ UNCHANGED <<currentFrameNumber, connection, conns, select_query, dtrange,
                   console, table, error, pending, iruns, istatus, ifailedAt, ipre>>
    /\ UNCHANGED lvars

\* lines 10-26: the call at the current line of the try block raises; its
\* assignment does not happen and control goes to the except clause
Raise ==
    /\ ipc \in GuardedLines
    /\ \E cls \in Raises(ipc) : error' = cls
    /\ ifailedAt' = ipc
    /\ executed' = executed \cup {ipc}
    /\ ipc' = 37
    /\ UNCHANGED <<currentFrameNumber, connection, conns, cursor, select_query,
                   dtrange, rows, console, table, pending, iruns, istatus, ipre>>
    /\ UNCHANGED lvars

\* line 37: the except clause takes the exception if its class matches;
\* otherwise the exception stays in flight through the finally clause
MatchExcept ==
    /\ ipc = 37
    /\ IF Catches(error)
       THEN /\ ipc' = 38
            /\ pending' = pending
       ELSE /\ ipc' = 42
            /\ pending' = error
    /\ executed' = executed \cup {37}
    /\ UNCHANGED <<currentFrameNumber, connection, conns, cursor, select_query,
                   dtrange, rows, console, table, error, iruns, istatus, ifailedAt,
                   ipre>>
    /\ UNCHANGED lvars

\* a handler that also empties rows
PrintErrorClearRows ==
    /\ ipc = 38
    /\ console' = Append(console, <<ErrorPrefix, error>>)
    /\ rows' = [bound |-> TRUE, value |-> <<>>]
    /\ ipc' = 42
    /\ executed' = executed \cup {38}
    /\ UNCHANGED <<currentFrameNumber, connection, conns, cursor, select_query,
                   dtrange, table, error, pending, iruns, istatus, ifailedAt, ipre>>
    /\ UNCHANGED lvars

\* line 38: print("Error while connecting to PostgreSQL", error)
PrintError ==
    /\ ipc = 38
    /\ console' = Append(console, <<ErrorPrefix, error>>)
    /\ ipc' = 42
    /\ executed' = executed \cup {38}
    /\ UNCHANGED <<currentFrameNumber, connection, conns, cursor, select_query,
                   dtrange, rows, table, error, pending, iruns, istatus, ifailedAt,
                   ipre>>
    /\ UNCHANGED lvars

\* lines 40-43: finally: if connection: connection.close(); then the script
\* ends, normally or with the exception still in flight.  (close() on None
\* would be an AttributeError raised out of the finally clause.)
Finally ==
    /\ ipc = 42
    /\ IF Truthy(connection)
       THEN IF connection = None
            THEN /\ conns' = conns
                 /\ pending' = "AttributeError"
            ELSE /\ conns' = [conns EXCEPT ![connection].open = FALSE,
                                           ![connection].closeCalls = @ + 1]
                 /\ pending' = pending
       ELSE /\ conns' = conns
            /\ pending' = pending
    /\ istatus' = IF pending' # "" THEN "raised"
                  ELSE IF ifailedAt # 0 THEN "handled" ELSE "ok"
    /\ ipc' = 0
    /\ executed' = executed \cup {42}
    /\ UNCHANGED <<currentFrameNumber, connection, cursor, select_query, dtrange,
                   rows, console, table, error, iruns, ifailedAt, ipre>>
    /\ UNCHANGED lvars

ImporterNext ==
    \/ ImporterStart
    \/ GetCanvas
    \/ GetTemporalController
    \/ ReadFrameNumber
    \/ UnguardedFault
    \/ ResetConnection
    \/ Connect
    \/ SetAutocommit
    \/ Register
    \/ OpenCursor
    \/ AssignQuery
    \/ ReadTimeRange
    \/ Execute
    \/ FetchAll
    \/ Raise
    \/ MatchExcept
    \/ PrintError
    \/ Finally

\* ===================================================== specifications
\* The two scripts have no variable in common, so each is also checked on its
\* own, the other one never being run.
LayerSpec == Init /\ [][LayerNext]_vars

ImporterSpec == Init /\ [][ImporterNext]_vars

Next == LayerNext \/ ImporterNext

Spec == Init /\ [][Next]_vars

\* ============================================================ claims
FullyConfigured(l) ==
    /\ HasField(l.fields, "time", "DateTime")
    /\ l.temporal = [isActive |-> TRUE, mode |-> 1, startField |-> "time"]

\* C1: every connection handle that connect returned has had close() called
\* exactly once by the time its run has ended, on the success path and on
\* every failure path alike, and no handle ever has close() called twice.
C1_ClosedExactlyOnce ==
    \A h \in DOMAIN conns :
        /\ conns[h].closeCalls <= 1
        /\ (ipc = 0 \/ h # connection) =>
               (conns[h].closeCalls = 1 /\ ~conns[h].open)

\* a second run whose execute raised after a successful connect has ended
C1_Witness ==
    /\ ipc = 0 /\ iruns = 2 /\ ifailedAt = 25 /\ istatus = "handled"
    /\ connection = 2 /\ conns[connection].closeCalls = 1

\* C2: when connect raises, the run ends with exactly one message printed,
\* connection still None, close() called on nothing (the handles are those of
\* the start of the run, none open), and no exception leaving the script.
C2_ConnectFailure ==
    (ipc = 0 /\ ifailedAt = 12) =>
        /\ console = Append(ipre.console, <<ErrorPrefix, error>>)
        /\ Len(console) = Len(ipre.console) + 1
        /\ connection = None
        /\ conns = ipre.conns
        /\ \A h \in DOMAIN conns : ~conns[h].open
        /\ pending = ""
        /\ istatus = "handled"

\* a run whose connect raised has ended
C2_Witness ==
    /\ ipc = 0 /\ ifailedAt = 12 /\ error = "OperationalError"
    /\ 42 \in executed /\ connection = None

\* C3: after a complete run the registry is the registry of before plus
\* exactly one new layer, which has a field "time" of type DateTime and the
\* temporal configuration active, mode 1, start field "time".
C3_OneNewTemporalLayer ==
    lstatus = "done" =>
        /\ Len(registry) = Len(lpre) + 1
        /\ SubSeq(registry, 1, Len(lpre)) = lpre
        /\ registry[Len(registry)] \notin Range(lpre)
        /\ FullyConfigured(layerObjs[registry[Len(registry)]])

\* a first run has completed
C3_Witness == lstatus = "done" /\ lruns = 1 /\ Len(registry) = 1

\* C4: each completed run adds one layer that was not registered before (so
\* two runs add two distinct layers, the name "points_3" notwithstanding), and
\* no step of any run changes a layer that is already registered.
C4_TwoRunsTwoLayers ==
    [][ /\ (lpc = 12 /\ lstatus' = "done") =>
              /\ Len(registry') = Len(registry) + 1
              /\ registry'[Len(registry')] \notin Range(registry)
        /\ \A i \in DOMAIN registry :
              /\ i \in DOMAIN registry'
              /\ registry'[i] = registry[i]
              /\ layerObjs'[registry[i]] = layerObjs[registry[i]] ]_vars

\* two runs have completed: two distinct registered layers
C4_Witness ==
    /\ lruns = 2 /\ lstatus = "done"
    /\ Len(registry) = 2 /\ registry[1] # registry[2]
    /\ layerObjs[registry[1]].name = layerObjs[registry[2]].name

\* C5: after a successful run rows holds one tuple per row of trips_test, in
\* row order, whose first element is the decoded trip, or None for a NULL.
C5_RowsMatchTable ==
    istatus = "ok" =>
        /\ rows.bound
        /\ Len(rows.value) = Len(table)
        /\ \A i \in 1..Len(table) :
              /\ Len(rows.value[i]) = 1
              /\ rows.value[i][1] =
                    IF table[i] = SqlNull THEN PyNone ELSE PyTrip(table[i])

\* a successful run over a full table that starts with a NULL trip and ends
\* with a trip
C5_Witness ==
    /\ istatus = "ok" /\ Len(table) = MaxRows
    /\ table[1] = SqlNull /\ table[MaxRows] = "A"
    /\ Len(rows.value) = MaxRows

\* C6: in every state, a layer whose temporal configuration is active or has
\* a start field set already has that field ("time") in its committed fields.
C6_FieldBeforeTemporal ==
    \A id \in DOMAIN layerObjs :
        LET l == layerObjs[id] IN
        (l.temporal.isActive \/ l.temporal.startField # "") =>
            /\ HasFieldNamed(l.fields, "time")
            /\ l.temporal.startField # "" =>
                   HasFieldNamed(l.fields, l.temporal.startField)

\* the start field has just been set, the second field commit not yet run
C6_Witness ==
    /\ lpc = 11
    /\ layerObjs[vlayer].temporal.isActive
    /\ layerObjs[vlayer].temporal.startField = "time"

\* C7: the query executed is the fixed text, without parameters, and its
\* result and the fetched rows are determined by the table alone, whatever
\* the frame number and its time range are.
C7_QueryIgnoresTimeRange ==
    /\ cursor.query # <<>> =>
          /\ cursor.query = <<"SELECT trip FROM trips_test">>
          /\ cursor.params = <<>>
    /\ ipc = 26 => cursor.result = [i \in 1..Len(table) |-> <<table[i]>>]
    /\ istatus = "ok" =>
          rows.value = [i \in 1..Len(table) |-> <<Decode(table[i], TRUE)>>]

\* a successful run at a frame other than frame 0, over a non-empty table
C7_Witness ==
    /\ istatus = "ok" /\ currentFrameNumber = MaxFrame
    /\ dtrange = DateTimeRangeForFrameNumber(MaxFrame)
    /\ cursor.query = SelectAll /\ Len(table) > 0 /\ table[1] = "A"

\* C8: whichever line of the try block raised, the run ends the same way: no
\* later line of the try block has run, the message with the fixed prefix and
\* the exception has been printed once, no exception leaves the script, and
\* the except and finally clauses have run.
C8_OneReportedClass ==
    (ipc = 0 /\ ifailedAt \in GuardedLines) =>
        /\ istatus = "handled"
        /\ pending = ""
        /\ console = Append(ipre.console, <<ErrorPrefix, error>>)
        /\ executed \cap {l \in GuardedLines : l > ifailedAt} = {}
        /\ {37, 38, 42} \subseteq executed

\* a run in which reading the frame's time range raised a built-in exception
C8_Witness ==
    /\ ipc = 0 /\ ifailedAt = 23 /\ error = "TypeError"
    /\ istatus = "handled" /\ Len(console) = 1

\* C9: rows changes only when fetchall returns: while a run has not yet got
\* past fetchall, and after a run in which some line raised, rows is what it
\* was when the run started.
C9_RowsOnlyFromFetchAll ==
    (istatus # "none" /\ (ifailedAt # 0 \/ 26 \notin executed)) =>
        rows = ipre.rows

\* a second run failed in fetchall over an empty table: rows is still the
\* first run's non-empty row set
C9_Witness ==
    /\ ipc = 0 /\ iruns = 2 /\ ifailedAt = 26 /\ table = <<>>
    /\ rows.bound /\ Len(rows.value) = MaxRows

\* C10: a run that faults leaves the registry as it was, a running script has
\* not yet touched it, and every registered layer has the "time" field and
\* the complete temporal configuration.
C10_RegistersLast ==
    /\ lstatus \in {"fault", "running"} => registry = lpre
    /\ \A i \in DOMAIN registry : FullyConfigured(layerObjs[registry[i]])

\* a second run faulted at setStartField, after a first complete run
C10_Witness ==
    /\ lstatus = "fault" /\ lfailedAt = 10 /\ lruns = 2
    /\ Len(registry) = 1 /\ vlayer \notin Range(registry)

====
